---- MODULE Spec2Model ----
(***************************************************************************)
(* A model of pcse/crop/nutrients/npk_stress.py: the NPK_Stress simulation *)
(* object, its kiosk of published state variables, and __call__, which     *)
(* returns (NNI, NPKI, NPKREF).                                            *)
(*                                                                         *)
(* Numbers.  The code computes in Python floats.  The model computes the   *)
(* same expressions exactly: every value up to the nutrient indices is a   *)
(* normalised rational [n, d]; the reduction factor, whose squares do not  *)
(* fit a machine integer, is a rational over multi-limb integers.  IEEE    *)
(* rounding is not modelled.                                               *)
(***************************************************************************)
EXTENDS Integers, Sequences, FiniteSets, TLC

VARIABLES
    params,   \* self.params: the coefficient set initialize() stored
    kiosk,    \* self.kiosk: the published state variables, name -> value
    calls,    \* how many times __call__ has run since the kiosk last changed
    frame,    \* the arguments and locals of the latest of those calls
    ret       \* what that call returned or raised

vars == <<params, kiosk, calls, frame, ret>>

(***************************************************************************)
(* Exact rationals [n |-> numerator, d |-> denominator], d > 0, in lowest  *)
(* terms.  d = 0 marks the result of a division by zero (Python raises     *)
(* ZeroDivisionError there); it is absorbing.                              *)
(***************************************************************************)
Abs(x) == IF x < 0 THEN -x ELSE x

RECURSIVE GCD(_, _)
GCD(a, b) == IF b = 0 THEN a ELSE GCD(b, a % b)

DivZero == [n |-> 1, d |-> 0]

Norm(n, d) ==
    IF d = 0 THEN DivZero
    ELSE LET g == GCD(Abs(n), Abs(d))
             s == IF d < 0 THEN -1 ELSE 1
         IN [n |-> s * (n \div g), d |-> s * (d \div g)]

R(n, d) == Norm(n, d)

Zero == R(0, 1)

IsNum(a) == a.d # 0

RAdd(a, b) == Norm(a.n * b.d + b.n * a.d, a.d * b.d)

RSub(a, b) == Norm(a.n * b.d - b.n * a.d, a.d * b.d)

RMul(a, b) == Norm(a.n * b.n, a.d * b.d)

RDiv(a, b) ==
    IF a.d = 0 \/ b.d = 0 \/ b.n = 0 THEN DivZero
    ELSE Norm(a.n * b.d, a.d * b.n)

RLt(a, b) == a.n * b.d < b.n * a.d

RGt(a, b) == RLt(b, a)

RLe(a, b) == ~RLt(b, a)

RGe(a, b) == ~RLt(a, b)

(***************************************************************************)
(* Multi-limb naturals: a sequence of limbs, least significant first, no   *)
(* most-significant zero limb (zero is <<>>).                              *)
(***************************************************************************)
Base == 10000

Rest(s) == IF s = <<>> THEN <<>> ELSE Tail(s)

Low(s) == IF s = <<>> THEN 0 ELSE Head(s)

Shift(m) == IF m = <<>> THEN <<>> ELSE <<0>> \o m

RECURSIVE MagFromInt(_)
MagFromInt(k) == IF k = 0 THEN <<>> ELSE <<k % Base>> \o MagFromInt(k \div Base)

RECURSIVE MagAddC(_, _, _)
MagAddC(a, b, c) ==
    IF a = <<>> /\ b = <<>>
    THEN IF c = 0 THEN <<>> ELSE <<c>>
    ELSE LET s == Low(a) + Low(b) + c
         IN <<s % Base>> \o MagAddC(Rest(a), Rest(b), s \div Base)

MagAdd(a, b) == MagAddC(a, b, 0)

RECURSIVE Strip(_)
Strip(m) ==
    IF m = <<>> THEN <<>>
    ELSE IF m[Len(m)] = 0 THEN Strip(SubSeq(m, 1, Len(m) - 1)) ELSE m

RECURSIVE MagSubB(_, _, _)
MagSubB(a, b, c) ==
    IF a = <<>> THEN <<>>
    ELSE LET s == Low(a) - Low(b) - c
         IN IF s < 0
            THEN <<s + Base>> \o MagSubB(Rest(a), Rest(b), 1)
            ELSE <<s>> \o MagSubB(Rest(a), Rest(b), 0)

\* a - b for a >= b
MagSub(a, b) == Strip(MagSubB(a, b, 0))

RECURSIVE MagMulSmall(_, _, _)
MagMulSmall(a, k, c) ==
    IF a = <<>>
    THEN IF c = 0 THEN <<>> ELSE <<c>>
    ELSE LET s == Head(a) * k + c
         IN <<s % Base>> \o MagMulSmall(Tail(a), k, s \div Base)

RECURSIVE MagMul(_, _)
MagMul(a, b) ==
    IF a = <<>> \/ b = <<>> THEN <<>>
    ELSE MagAdd(Strip(MagMulSmall(a, Head(b), 0)), Shift(MagMul(a, Tail(b))))

RECURSIVE MagCmpAt(_, _, _)
MagCmpAt(a, b, i) ==
    IF i = 0 THEN 0
    ELSE IF a[i] < b[i] THEN -1
    ELSE IF a[i] > b[i] THEN 1
    ELSE MagCmpAt(a, b, i - 1)

\* -1, 0, 1 as a < b, a = b, a > b
MagCmp(a, b) ==
    IF Len(a) < Len(b) THEN -1
    ELSE IF Len(a) > Len(b) THEN 1
    ELSE MagCmpAt(a, b, Len(a))

(***************************************************************************)
(* Signed multi-limb integers [s |-> -1 | 0 | 1, m |-> magnitude] and      *)
(* rationals over them, [n |-> signed, d |-> magnitude > 0], not reduced:  *)
(* two of them are compared by value with QLt and QEq, never with =.       *)
(***************************************************************************)
ZMake(s, m) == IF m = <<>> THEN [s |-> 0, m |-> <<>>] ELSE [s |-> s, m |-> m]

ZFromInt(k) == ZMake(IF k < 0 THEN -1 ELSE 1, MagFromInt(Abs(k)))

ZNeg(a) == ZMake(-a.s, a.m)

ZAdd(a, b) ==
    IF a.s = 0 THEN b
    ELSE IF b.s = 0 THEN a
    ELSE IF a.s = b.s THEN ZMake(a.s, MagAdd(a.m, b.m))
    ELSE IF MagCmp(a.m, b.m) >= 0 THEN ZMake(a.s, MagSub(a.m, b.m))
    ELSE ZMake(b.s, MagSub(b.m, a.m))

ZSub(a, b) == ZAdd(a, ZNeg(b))

ZMul(a, b) == ZMake(a.s * b.s, MagMul(a.m, b.m))

ZScale(a, m) == ZMake(a.s, MagMul(a.m, m))

ZLt(a, b) == ZSub(a, b).s < 0

QFromR(a) == [n |-> ZFromInt(a.n), d |-> MagFromInt(a.d)]

QZero == QFromR(R(0, 1))

QOne == QFromR(R(1, 1))

QSub(a, b) == [n |-> ZSub(ZScale(a.n, b.d), ZScale(b.n, a.d)), d |-> MagMul(a.d, b.d)]

QMul(a, b) == [n |-> ZMul(a.n, b.n), d |-> MagMul(a.d, b.d)]

QLt(a, b) == ZLt(ZScale(a.n, b.d), ZScale(b.n, a.d))

QLe(a, b) == ~QLt(b, a)

QEq(a, b) == ~QLt(a, b) /\ ~QLt(b, a)

(***************************************************************************)
(* The nine state variables __call__ reads from the kiosk, in the order    *)
(* it reads them.                                                          *)
(***************************************************************************)
Required == <<"WLV", "WST", "DVS", "ANLV", "ANST", "APLV", "APST", "AKLV", "AKST">>

RequiredNames == {Required[i] : i \in 1..Len(Required)}

\* The values the host engine publishes, per variable.
KioskValues ==
    [WLV  |-> {R(0, 1), R(3000, 1)},
     WST  |-> {R(0, 1), R(2000, 1)},
     DVS  |-> {R(1, 2), R(1, 1), R(5, 2)},
     ANLV |-> {R(30, 1), R(90, 1)},
     ANST |-> {R(40, 1)},
     APLV |-> {R(6, 1), R(21, 1)},
     APST |-> {R(4, 1)},
     AKLV |-> {R(60, 1), R(130, 1)},
     AKST |-> {R(30, 1)}]

\* Days passed to __call__: 1..MaxDay.
MaxDay == 2

Days == 1..MaxDay

\* Calls of __call__ between two publications.
MaxCalls == 2

(***************************************************************************)
(* Parameters: the coefficient sets a crop file may hold.  A table is a    *)
(* sequence of breakpoints <<x, y>>, sorted by x.                          *)
(***************************************************************************)
BaseParams ==
    [NMAXLV_TB |-> << <<R(0, 1), R(6, 100)>>, <<R(1, 1), R(4, 100)>>, <<R(2, 1), R(2, 100)>> >>,
     PMAXLV_TB |-> << <<R(0, 1), R(11, 1000)>>, <<R(1, 1), R(8, 1000)>>, <<R(2, 1), R(6, 1000)>> >>,
     KMAXLV_TB |-> << <<R(0, 1), R(12, 100)>>, <<R(1, 1), R(4, 100)>>, <<R(2, 1), R(3, 100)>> >>,
     NCRIT_FR  |-> R(8, 10),
     PCRIT_FR  |-> R(8, 10),
     KCRIT_FR  |-> R(1, 1),
     NMAXRT_FR |-> R(1, 2),
     NMAXST_FR |-> R(1, 2),
     PMAXST_FR |-> R(3, 4),
     PMAXRT_FR |-> R(1, 2),
     KMAXRT_FR |-> R(1, 2),
     KMAXST_FR |-> R(1, 2),
     NRESIDLV  |-> R(20, 1000),
     NRESIDST  |-> R(15, 1000),
     PRESIDLV  |-> R(1, 1000),
     PRESIDST  |-> R(1, 2000),
     KRESIDLV  |-> R(9, 1000),
     KRESIDST  |-> R(5, 1000),
     NLUE_NPK  |-> R(11, 10)]

ParamSets ==
    {BaseParams,
     [BaseParams EXCEPT !.NLUE_NPK = R(-1, 2)],
     [BaseParams EXCEPT !.NLUE_NPK = R(1, 4), !.NCRIT_FR = R(1, 1),
                        !.NRESIDLV = R(0, 1), !.NRESIDST = R(0, 1),
                        !.PMAXRT_FR = R(1, 4), !.KMAXST_FR = R(1, 4)]}

(***************************************************************************)
(* AfgenTrait.__call__: piecewise-linear interpolation in a table, flat    *)
(* outside its breakpoints.                                                *)
(***************************************************************************)
RECURSIVE AfgenFrom(_, _, _)
AfgenFrom(tb, x, i) ==
    IF i = Len(tb) THEN tb[i][2]
    ELSE IF RLt(x, tb[i + 1][1])
         THEN RAdd(tb[i][2],
                   RDiv(RMul(RSub(x, tb[i][1]), RSub(tb[i + 1][2], tb[i][2])),
                        RSub(tb[i + 1][1], tb[i][1])))
         ELSE AfgenFrom(tb, x, i + 1)

Afgen(tb, x) == IF RLe(x, tb[1][1]) THEN tb[1][2] ELSE AfgenFrom(tb, x, 1)

\* util.limit(min, max, v)
limit(min, max, v) ==
    IF QLt(v, min) THEN min
    ELSE IF QLt(max, v) THEN max
    ELSE v

(***************************************************************************)
(* The kiosk: a function from the published names to their values.         *)
(***************************************************************************)
Missing == [missing |-> TRUE]

IsMissing(v) == "missing" \in DOMAIN v

\* kiosk[name]: the published value; the lookup fails for a name that has
\* not been published.
KioskGet(k, name) == IF name \in DOMAIN k THEN k[name] ELSE Missing

\* The reads with a default of 0. for an unpublished name, as
\* self.kiosk.get(name, 0.) would make them.
FetchedWithDefault(k) ==
    [i \in 1..Len(Required) |-> IF Required[i] \in DOMAIN k THEN k[Required[i]] ELSE Zero]

\* The nine reads of __call__, in order.
Fetched(k) == [i \in 1..Len(Required) |-> KioskGet(k, Required[i])]

RECURSIVE FirstMissingFrom(_, _)
FirstMissingFrom(reads, i) ==
    IF i > Len(reads) THEN 0
    ELSE IF IsMissing(reads[i]) THEN i
    ELSE FirstMissingFrom(reads, i + 1)

\* The first of the reads that fails (0: all succeed).
FirstMissing(reads) == FirstMissingFrom(reads, 1)

(***************************************************************************)
(* __call__, statement by statement.                                       *)
(***************************************************************************)
\* Maximum NPK concentrations in stems.
MaxStemN(p, NMAXLV) == RMul(p.NMAXST_FR, NMAXLV)

\* The stem maximum of P from the stem-named ratio.
MaxStemPFromStemRatio(p, PMAXLV) == RMul(p.PMAXST_FR, PMAXLV)

MaxStemP(p, PMAXLV) == RMul(p.PMAXRT_FR, PMAXLV)

MaxStemK(p, KMAXLV) == RMul(p.KMAXST_FR, KMAXLV)

\* The optimal amount taken to be the maximum one.
OptAmountOfMaximum(CRIT_FR, MAX, W) == RMul(MAX, W)

\* Optimal amount in leaves or stems: critical fraction * maximum * dry weight.
OptAmount(CRIT_FR, MAX, W) == RMul(RMul(CRIT_FR, MAX), W)

\* The division without its guard.
ConcentrationUnguarded(amount, TBGMR) == RDiv(amount, TBGMR)

\* "if TBGMR > 0.: x = amount/TBGMR else: x = 0."
Concentration(amount, TBGMR) ==
    IF RGt(TBGMR, Zero) THEN RDiv(amount, TBGMR) ELSE Zero

\* Residual amount: WLV * RESIDLV + WST * RESIDST.
ResidAmount(WLV, RESIDLV, WST, RESIDST) == RAdd(RMul(WLV, RESIDLV), RMul(WST, RESIDST))

Floor == R(1, 1000)

RMax(a, b) == IF RGt(b, a) THEN b ELSE a

RMin(a, b) == IF RLt(b, a) THEN b ELSE a

\* The index without max(0.001, .).
IndexNoFloor(FGMR, RMR, OPTMR) ==
    IF RGt(RSub(OPTMR, RMR), Zero)
    THEN RDiv(RSub(FGMR, RMR), RSub(OPTMR, RMR))
    ELSE Floor

\* The index with the deficit OPTMR-FGMR where the surplus FGMR-RMR belongs.
IndexOfDeficit(FGMR, RMR, OPTMR) ==
    IF RGt(RSub(OPTMR, RMR), Zero)
    THEN RMax(Floor, RDiv(RSub(OPTMR, FGMR), RSub(OPTMR, RMR)))
    ELSE Floor

\* "if (OPTMR - RMR) > 0.: max(0.001, (FGMR-RMR)/(OPTMR-RMR)) else: 0.001"
Index(FGMR, RMR, OPTMR) ==
    IF RGt(RSub(OPTMR, RMR), Zero)
    THEN RMax(Floor, RDiv(RSub(FGMR, RMR), RSub(OPTMR, RMR)))
    ELSE Floor

\* The minimum that leaves K out.
CombinedNP(NNI, PNI, KNI) == RMin(NNI, PNI)

\* NPKI = min(NNI, PNI, KNI)
Combined(NNI, PNI, KNI) == RMin(RMin(NNI, PNI), KNI)

Offset == R(10001, 10000)

\* The penalty with 1.0001+NPKI where 1.0001-NPKI belongs.
PenalisedOffsetAdded(NLUE_NPK, NPKI) ==
    LET x == QSub(QFromR(Offset), QFromR(RSub(Zero, NPKI)))
    IN QSub(QOne, QMul(QFromR(NLUE_NPK), QMul(x, x)))

\* 1. - (NLUE_NPK * (1.0001-NPKI)**2)
Penalised(NLUE_NPK, NPKI) ==
    LET x == QSub(QFromR(Offset), QFromR(NPKI))
    IN QSub(QOne, QMul(QFromR(NLUE_NPK), QMul(x, x)))

\* The reduction factor without limit().
ReductionUnclamped(NLUE_NPK, NPKI) == Penalised(NLUE_NPK, NPKI)

\* NPKREF = limit(0., 1.0, 1. - (params.NLUE_NPK * (1.0001-NPKI)**2))
Reduction(NLUE_NPK, NPKI) == limit(QZero, QOne, Penalised(NLUE_NPK, NPKI))

\* The local variables of __call__ as it reaches the reduction factor, from
\* the parameters p and the nine values s read from the kiosk.
Indices(p, s) ==
    LET WLV == s.WLV
        WST == s.WST
        NMAXLV == Afgen(p.NMAXLV_TB, s.DVS)
        PMAXLV == Afgen(p.PMAXLV_TB, s.DVS)
        KMAXLV == Afgen(p.KMAXLV_TB, s.DVS)
        NMAXST == MaxStemN(p, NMAXLV)
        PMAXST == MaxStemP(p, PMAXLV)
        KMAXST == MaxStemK(p, KMAXLV)
        TBGMR  == RAdd(WLV, WST)
        NOPTLV == OptAmount(p.NCRIT_FR, NMAXLV, WLV)
        NOPTST == OptAmount(p.NCRIT_FR, NMAXST, WST)
        POPTLV == OptAmount(p.PCRIT_FR, PMAXLV, WLV)
        POPTST == OptAmount(p.PCRIT_FR, PMAXST, WST)
        KOPTLV == OptAmount(p.KCRIT_FR, KMAXLV, WLV)
        KOPTST == OptAmount(p.KCRIT_FR, KMAXST, WST)
        NOPTMR == Concentration(RAdd(NOPTLV, NOPTST), TBGMR)
        POPTMR == Concentration(RAdd(POPTLV, POPTST), TBGMR)
        KOPTMR == Concentration(RAdd(KOPTLV, KOPTST), TBGMR)
        NFGMR  == Concentration(RAdd(s.ANLV, s.ANST), TBGMR)
        PFGMR  == Concentration(RAdd(s.APLV, s.APST), TBGMR)
        KFGMR  == Concentration(RAdd(s.AKLV, s.AKST), TBGMR)
        NRMR   == Concentration(ResidAmount(WLV, p.NRESIDLV, WST, p.NRESIDST), TBGMR)
        PRMR   == Concentration(ResidAmount(WLV, p.PRESIDLV, WST, p.PRESIDST), TBGMR)
        KRMR   == Concentration(ResidAmount(WLV, p.KRESIDLV, WST, p.KRESIDST), TBGMR)
        NNI    == Index(NFGMR, NRMR, NOPTMR)
        PNI    == Index(PFGMR, PRMR, POPTMR)
        KNI    == Index(KFGMR, KRMR, KOPTMR)
        NPKI   == Combined(NNI, PNI, KNI)
    IN [WLV |-> WLV, WST |-> WST, DVS |-> s.DVS,
        ANLV |-> s.ANLV, ANST |-> s.ANST, APLV |-> s.APLV, APST |-> s.APST,
        AKLV |-> s.AKLV, AKST |-> s.AKST,
        NMAXLV |-> NMAXLV, PMAXLV |-> PMAXLV, KMAXLV |-> KMAXLV,
        NMAXST |-> NMAXST, PMAXST |-> PMAXST, KMAXST |-> KMAXST,
        TBGMR |-> TBGMR,
        NOPTMR |-> NOPTMR, POPTMR |-> POPTMR, KOPTMR |-> KOPTMR,
        NFGMR |-> NFGMR, PFGMR |-> PFGMR, KFGMR |-> KFGMR,
        NRMR |-> NRMR, PRMR |-> PRMR, KRMR |-> KRMR,
        NNI |-> NNI, PNI |-> PNI, KNI |-> KNI, NPKI |-> NPKI]

\* The local variables of __call__ at its return statement.
Locals(p, s) ==
    LET L == Indices(p, s)
    IN L @@ [NPKREF |-> Reduction(p.NLUE_NPK, L.NPKI)]

\* The results of the divisions __call__ makes.
Quotients(L) ==
    {L.NOPTMR, L.POPTMR, L.KOPTMR, L.NFGMR, L.PFGMR, L.KFGMR,
     L.NRMR, L.PRMR, L.KRMR, L.NNI, L.PNI, L.KNI}

NoReturn == [kind |-> "none"]

NoFrame == [day |-> 0]

Raise(exc, what) == [kind |-> "raise", exc |-> exc, what |-> what]

Return(L) == [kind |-> "return", NNI |-> L.NNI, NPKI |-> L.NPKI, NPKREF |-> L.NPKREF]

\* What __call__(day) does with parameters p and kiosk k: the frame it
\* leaves and what it returns or raises.
Evaluate(p, k, day) ==
    LET reads == Fetched(k)
        m == FirstMissing(reads)
    IN IF m # 0
       THEN [frame |-> [day |-> day], ret |-> Raise("MissingVariable", Required[m])]
       ELSE LET L == Locals(p, [name \in RequiredNames |->
                                  reads[CHOOSE i \in 1..Len(Required) : Required[i] = name]])
            IN IF \E q \in Quotients(L) : ~IsNum(q)
               THEN [frame |-> [day |-> day], ret |-> Raise("ZeroDivisionError", "")]
               ELSE [frame |-> [day |-> day] @@ L, ret |-> Return(L)]

(***************************************************************************)
(* The state machine.  params and kiosk are the attributes initialize()    *)
(* sets; frame and ret are the locals and the outcome of the latest        *)
(* __call__ on the kiosk as it stands (none once the kiosk has changed).   *)
(* A caller makes at most MaxCalls calls between two publications.         *)
(***************************************************************************)
Init ==
    /\ params \in ParamSets
    /\ kiosk = <<>>
    /\ calls = 0
    /\ frame = NoFrame
    /\ ret = NoReturn

\* The host engine publishes a state variable; the previous step's result
\* is gone.
Publish(name, v) ==
    /\ kiosk' = [x \in DOMAIN kiosk \cup {name} |-> IF x = name THEN v ELSE kiosk[x]]
    /\ calls' = 0
    /\ frame' = NoFrame
    /\ ret' = NoReturn
    /\ UNCHANGED params

\* A __call__ that also publishes the NNI it returns.
CallPublishing(day) ==
    /\ calls < MaxCalls
    /\ calls' = calls + 1
    /\ LET e == Evaluate(params, kiosk, day)
       IN /\ frame' = e.frame
          /\ ret' = e.ret
          /\ kiosk' = IF e.ret.kind = "return"
                      THEN [x \in DOMAIN kiosk \cup {"NNI"} |->
                              IF x = "NNI" THEN e.ret.NNI ELSE kiosk[x]]
                      ELSE kiosk
    /\ UNCHANGED params

Call(day) ==
    /\ calls < MaxCalls
    /\ calls' = calls + 1
    /\ LET e == Evaluate(params, kiosk, day)
       IN /\ frame' = e.frame
          /\ ret' = e.ret
    /\ UNCHANGED <<params, kiosk>>

Next ==
    \/ \E name \in RequiredNames : \E v \in KioskValues[name] : Publish(name, v)
    \/ \E day \in Days : Call(day)

Spec == Init /\ [][Next]_vars

(***************************************************************************)
(* Properties.                                                             *)
(***************************************************************************)
Returned == ret.kind = "return"

Called == ret.kind # "none"

One == R(1, 1)

\* C1: whenever __call__ returns, each of the three single-nutrient
\* indices, and the returned NNI and NPKI, is at least 0.001.
C1_FloorHolds ==
    Returned =>
        /\ RGe(frame.NNI, Floor) /\ RGe(frame.PNI, Floor) /\ RGe(frame.KNI, Floor)
        /\ RGe(ret.NNI, Floor) /\ RGe(ret.NPKI, Floor)

\* A call with biomass, the actual N concentration below the residual one
\* and an optimal one above it: the ratio is negative and the floor acts.
C1_Witness ==
    /\ Returned
    /\ RGt(frame.TBGMR, Zero)
    /\ RLt(frame.NFGMR, frame.NRMR)
    /\ RGt(frame.NOPTMR, frame.NRMR)
    /\ ret.NNI = Floor

\* The statement of claim C2 for one nutrient: from the masses and
\* coefficients to the three concentrations and the index.
C2_Holds(CRIT_FR, MAXLV, MAXST, RESIDLV, RESIDST, ALV, AST, OPTMR, FGMR, RMR, XNI) ==
    LET W == RAdd(frame.WLV, frame.WST)
        optimal == IF W = Zero THEN Zero
                   ELSE RDiv(RAdd(RMul(RMul(CRIT_FR, MAXLV), frame.WLV),
                                  RMul(RMul(CRIT_FR, MAXST), frame.WST)), W)
        actual == IF W = Zero THEN Zero ELSE RDiv(RAdd(ALV, AST), W)
        residual == IF W = Zero THEN Zero
                    ELSE RDiv(RAdd(RMul(frame.WLV, RESIDLV), RMul(frame.WST, RESIDST)), W)
        range == RSub(optimal, residual)
        ratio == RDiv(RSub(actual, residual), range)
    IN /\ OPTMR = optimal
       /\ FGMR = actual
       /\ RMR = residual
       /\ XNI = IF RGt(range, Zero)
                THEN (IF RGt(ratio, Floor) THEN ratio ELSE Floor)
                ELSE Floor

\* The inputs of the worked example.
C2_Example ==
    /\ frame.DVS = One /\ frame.WLV = R(3000, 1) /\ frame.WST = R(2000, 1)
    /\ frame.ANLV = R(90, 1) /\ frame.ANST = R(40, 1)
    /\ frame.NMAXLV = R(4, 100) /\ params.NMAXST_FR = R(1, 2)
    /\ params.NCRIT_FR = R(8, 10)
    /\ params.NRESIDLV = R(20, 1000) /\ params.NRESIDST = R(15, 1000)

\* C2: for N, P and K the optimal, actual and residual concentrations and
\* the index are the ones the formulas give, the returned NNI is the N
\* index, and the worked example gives 0.0256, 0.026, 0.018 and 0.008/0.0076.
C2_IndexFormula ==
    Returned =>
        /\ C2_Holds(params.NCRIT_FR, frame.NMAXLV, frame.NMAXST, params.NRESIDLV,
                    params.NRESIDST, frame.ANLV, frame.ANST,
                    frame.NOPTMR, frame.NFGMR, frame.NRMR, frame.NNI)
        /\ C2_Holds(params.PCRIT_FR, frame.PMAXLV, frame.PMAXST, params.PRESIDLV,
                    params.PRESIDST, frame.APLV, frame.APST,
                    frame.POPTMR, frame.PFGMR, frame.PRMR, frame.PNI)
        /\ C2_Holds(params.KCRIT_FR, frame.KMAXLV, frame.KMAXST, params.KRESIDLV,
                    params.KRESIDST, frame.AKLV, frame.AKST,
                    frame.KOPTMR, frame.KFGMR, frame.KRMR, frame.KNI)
        /\ ret.NNI = frame.NNI
        /\ C2_Example =>
              /\ frame.NOPTMR = R(256, 10000)
              /\ frame.NFGMR = R(26, 1000)
              /\ frame.NRMR = R(18, 1000)
              /\ ret.NNI = RDiv(R(8, 1000), R(76, 10000))

\* A call on the worked example's inputs has returned.
C2_Witness == Returned /\ C2_Example /\ RGt(ret.NNI, One)

\* 1 - NLUE_NPK * (1.0001 - 0.001)^2, clamped to [0, 1]
C3_FloorReduction ==
    LET x == QSub(QFromR(Offset), QFromR(Floor))
        v == QSub(QOne, QMul(QFromR(params.NLUE_NPK), QMul(x, x)))
    IN IF QLt(v, QZero) THEN QZero ELSE IF QLt(QOne, v) THEN QOne ELSE v

C3_NoBiomass ==
    /\ RequiredNames \subseteq DOMAIN kiosk
    /\ kiosk.WLV = Zero
    /\ kiosk.WST = Zero

\* C3: a call with WLV = WST = 0 raises nothing; its nine concentrations
\* are 0, its three indices 0.001, and it returns NNI = NPKI = 0.001 and
\* NPKREF = clamp(1 - NLUE_NPK * (1.0001 - 0.001)^2, 0, 1).
C3_ZeroBiomass ==
    (Called /\ C3_NoBiomass) =>
        /\ Returned
        /\ \A c \in {frame.NOPTMR, frame.POPTMR, frame.KOPTMR,
                     frame.NFGMR, frame.PFGMR, frame.KFGMR,
                     frame.NRMR, frame.PRMR, frame.KRMR} : c = Zero
        /\ frame.NNI = Floor /\ frame.PNI = Floor /\ frame.KNI = Floor
        /\ ret.NNI = Floor
        /\ ret.NPKI = Floor
        /\ QEq(ret.NPKREF, C3_FloorReduction)

\* A call without biomass and with nutrient mass left has been made, under
\* a coefficient that leaves the reduction factor strictly inside (0, 1).
C3_Witness ==
    /\ Called /\ C3_NoBiomass
    /\ RGt(kiosk.ANLV, Zero) /\ RGt(kiosk.APLV, Zero) /\ RGt(kiosk.AKLV, Zero)
    /\ QLt(QZero, C3_FloorReduction) /\ QLt(C3_FloorReduction, QOne)

\* C4: the returned NPKI is the least of the three indices of the same
\* call; it never exceeds the returned NNI and equals it when N limits.
C4_Minimum ==
    Returned =>
        /\ ret.NPKI \in {frame.NNI, frame.PNI, frame.KNI}
        /\ RLe(ret.NPKI, frame.NNI) /\ RLe(ret.NPKI, frame.PNI) /\ RLe(ret.NPKI, frame.KNI)
        /\ RLe(ret.NPKI, ret.NNI)
        /\ (RLe(frame.NNI, frame.PNI) /\ RLe(frame.NNI, frame.KNI)) => ret.NPKI = ret.NNI

\* A call in which K alone is the limiting nutrient, above the floor.
C4_Witness ==
    /\ Returned
    /\ RLt(frame.KNI, frame.NNI) /\ RLt(frame.KNI, frame.PNI)
    /\ RGt(frame.KNI, Floor)
    /\ ret.NPKI = frame.KNI

\* C5: the returned NPKREF lies in [0, 1].
C5_ReductionInUnitInterval ==
    Returned => QLe(QZero, ret.NPKREF) /\ QLe(ret.NPKREF, QOne)

\* A call whose combined index is above 1 and whose unclamped reduction
\* 1 - NLUE_NPK * (1.0001 - NPKI)^2 is negative.
C5_Witness ==
    /\ Returned
    /\ RGt(ret.NPKI, One)
    /\ QLt(Penalised(params.NLUE_NPK, ret.NPKI), QZero)

\* The leaf and stem variables and the index of each nutrient.
Nutrients == {<<"ANLV", "ANST", "NNI">>, <<"APLV", "APST", "PNI">>, <<"AKLV", "AKST", "KNI">>}

\* Accumulated nutrient masses a second snapshot may hold.
OtherMasses == {R(0, 1), R(45, 1), R(140, 1)}

\* The indices of a call on the snapshot that differs from the kiosk's in
\* the leaf and stem mass of nutrient x alone.
C6_Other(x, lv, st) == Indices(params, [kiosk EXCEPT ![x[1]] = lv, ![x[2]] = st])

\* C6: a snapshot that differs from the one of the call in the accumulated
\* mass of one nutrient only, and holds at least as much of it in leaves
\* plus stems, gives an index of that nutrient, and an NPKI, not smaller.
C6_Monotone ==
    Returned =>
        \A x \in Nutrients : \A lv \in OtherMasses : \A st \in OtherMasses :
            RGe(RAdd(lv, st), RAdd(frame[x[1]], frame[x[2]])) =>
                LET o == C6_Other(x, lv, st)
                IN RGe(o[x[3]], frame[x[3]]) /\ RGe(o.NPKI, ret.NPKI)

\* A call for which more N strictly raises both the N index and NPKI.
C6_Witness ==
    /\ Returned
    /\ \E lv \in OtherMasses : \E st \in OtherMasses :
          /\ RGt(RAdd(lv, st), RAdd(frame.ANLV, frame.ANST))
          /\ LET o == C6_Other(<<"ANLV", "ANST", "NNI">>, lv, st)
             IN RGt(o.NNI, frame.NNI) /\ RGt(o.NPKI, ret.NPKI)

\* C7: a step that leaves a call's outcome behind changes neither the
\* kiosk nor the parameters, and when the snapshot already had an outcome
\* (whatever the day of that call) the new one is identical.
C7_Pure ==
    [][Called' => /\ kiosk' = kiosk
                  /\ params' = params
                  /\ Called => ret' = ret]_vars

\* A second call on an unchanged, complete snapshot has returned.
C7_Witness == Returned /\ calls >= 2

\* C8: a call with one of the nine variables unpublished raises the
\* lookup's error for an unpublished variable, and leaves no locals and no
\* part of (NNI, NPKI, NPKREF).
C8_MissingVariable ==
    (Called /\ ~(RequiredNames \subseteq DOMAIN kiosk)) =>
        /\ ret.kind = "raise"
        /\ ret.exc = "MissingVariable"
        /\ ret.what \in RequiredNames \ DOMAIN kiosk
        /\ DOMAIN ret \cap {"NNI", "NPKI", "NPKREF"} = {}
        /\ DOMAIN frame = {"day"}

\* A call with AKST alone unpublished, on a snapshot whose N index is at
\* the floor, so that K could not have been the limiting nutrient.
C8_Witness ==
    /\ Called
    /\ DOMAIN kiosk = RequiredNames \ {"AKST"}
    /\ kiosk.WLV = R(3000, 1) /\ kiosk.WST = R(2000, 1) /\ kiosk.ANLV = R(30, 1)
    /\ ret.kind = "raise" /\ ret.what = "AKST"

\* The locals of a call on the snapshot with other leaf masses of N, P, K.
C9_Other(n, p, k) == Locals(params, [kiosk EXCEPT !.ANLV = n, !.APLV = p, !.AKLV = k])

C9_Others == {C9_Other(n, p, k) : n \in OtherMasses, p \in OtherMasses, k \in OtherMasses}

\* C9 as claimed: with NLUE_NPK >= 0, a snapshot whose NPKI is not
\* smaller has an NPKREF that is not larger.
C9_Decreasing ==
    (Returned /\ RGe(params.NLUE_NPK, Zero)) =>
        \A o \in C9_Others : RLe(ret.NPKI, o.NPKI) => QLe(o.NPKREF, ret.NPKREF)

\* C9 as amended: with NLUE_NPK >= 0 and NPKI a <= b, NPKREF(a) <=
\* NPKREF(b) when b <= 1.0001, and NPKREF(a) >= NPKREF(b) when a >= 1.0001.
C9_IncreasingUpToOffset ==
    (Returned /\ RGe(params.NLUE_NPK, Zero)) =>
        \A o \in C9_Others :
            RLe(ret.NPKI, o.NPKI) =>
                /\ RLe(o.NPKI, Offset) => QLe(ret.NPKREF, o.NPKREF)
                /\ RGe(ret.NPKI, Offset) => QLe(o.NPKREF, ret.NPKREF)

\* A call with NPKI below a second snapshot's, both at most 1.0001, and an
\* NPKREF strictly below that snapshot's.
C9_Witness ==
    /\ Returned /\ RGt(params.NLUE_NPK, Zero)
    /\ \E o \in C9_Others :
          /\ RLt(ret.NPKI, o.NPKI) /\ RLe(o.NPKI, Offset)
          /\ QLt(ret.NPKREF, o.NPKREF)

\* Values of a ratio coefficient in a second coefficient set.
OtherRatios == {R(1, 4), R(9, 10)}

\* C10: the stem maxima are NMAXST_FR, PMAXRT_FR and KMAXST_FR times the
\* leaf maxima at DVS, and a coefficient set that differs in PMAXST_FR,
\* NMAXRT_FR and KMAXRT_FR alone returns the same (NNI, NPKI, NPKREF).
C10_StemRatios ==
    Returned =>
        /\ frame.NMAXST = RMul(params.NMAXST_FR, Afgen(params.NMAXLV_TB, frame.DVS))
        /\ frame.PMAXST = RMul(params.PMAXRT_FR, Afgen(params.PMAXLV_TB, frame.DVS))
        /\ frame.KMAXST = RMul(params.KMAXST_FR, Afgen(params.KMAXLV_TB, frame.DVS))
        /\ \A a \in OtherRatios : \A b \in OtherRatios : \A c \in OtherRatios :
              Evaluate([params EXCEPT !.PMAXST_FR = a, !.NMAXRT_FR = b, !.KMAXRT_FR = c],
                       kiosk, frame.day).ret = ret

\* A call whose P index and NPKI another PMAXRT_FR changes.
C10_Witness ==
    /\ Returned
    /\ \E a \in OtherRatios :
          LET o == Evaluate([params EXCEPT !.PMAXRT_FR = a], kiosk, frame.day)
          IN o.frame.PNI # frame.PNI /\ o.ret.NPKI # ret.NPKI

====
